---- MODULE Spec2Model ----
(***************************************************************************)
(* HR Smart Recruiter RAG: the ingestion of a batch of CV files, the       *)
(* session state, and the query pipeline (router, retriever, context       *)
(* assembler, answer generator) as one state machine.                      *)
(*                                                                         *)
(* Texts (queries, file names, applicant names) are TLA+ strings and are   *)
(* compared character by character, as Python compares them.  A CV text    *)
(* is identified by the file it was extracted from and carries the number  *)
(* of chunks the text splitter cuts it into.  A list of chunk documents    *)
(* is kept as a list of runs, one run for the consecutive chunks of one    *)
(* text, and is expanded into the single documents where it is searched.   *)
(* The similarity ranking of the external FAISS index is a                 *)
(* nondeterministic choice among a family of orderings of the stored       *)
(* chunks.                                                                 *)
(*                                                                         *)
(* Spec is the application: Load & Index on any batch, and the query       *)
(* pipeline.  IngestSpec follows the files held by the uploader through    *)
(* Load & Index, EmbedSpec adds the calls on the embedding model,          *)
(* OverlapSpec takes the assignments of update_vectorstore and the reads   *)
(* of handle_query as single steps of two overlapping script runs, and     *)
(* AddSpec adds documents to the index the session holds.                  *)
(***************************************************************************)
EXTENDS Integers, Sequences, FiniteSets, TLC

VARIABLES
    vectorstore,       \* st.session_state.vectorstore
    applicant_names,   \* st.session_state.applicant_names
    applicant_cvs,     \* st.session_state.applicant_cvs
    upload_msg,        \* banner shown by the last handle_file_upload
    pc,                \* position of the script run inside handle_query
    user_query,        \* the query being handled
    q_vectorstore,     \* handle_query's local: index read from the session
    q_names,           \* handle_query's local: name list read from the session
    rank_order,        \* the ranking the index used in the search of this query
    path,              \* branch taken by _build_context_from_query
    matched_applicant, \* value returned by is_applicant_specific
    searches,          \* search calls made on the index during this query
    context_docs,      \* value returned by _build_context_from_query
    llm_calls,         \* outcomes of the chain.invoke calls made during this query
    result,            \* value returned by RAGEngine.query
    raised,            \* an exception escaped RAGEngine.query
    uploader_files,    \* the files held by the file uploader of the sidebar
    extracted,         \* value returned by the last extract_text_from_files
    model_inputs,      \* the last call an embedding method made on the underlying model
    update_args,       \* arguments and position of an update_vectorstore in progress
    add_call           \* the last add_documents_to_vectorstore: index objects and handles

vars == <<vectorstore, applicant_names, applicant_cvs, upload_msg, pc,
          user_query, q_vectorstore, q_names, rank_order, path,
          matched_applicant, searches, context_docs, llm_calls, result, raised,
          uploader_files, extracted, model_inputs, update_args, add_call>>

sessionVars == <<vectorstore, applicant_names, applicant_cvs, upload_msg>>

queryVars == <<user_query, q_vectorstore, q_names, rank_order, path,
               matched_applicant, searches, context_docs, llm_calls, result, raised>>

ingestVars == <<uploader_files, extracted, model_inputs, update_args, add_call>>

-----------------------------------------------------------------------------
(* Bounds of the model *)

MaxFiles == 2      \* files in one uploaded batch
MaxFrags == 2      \* fragments a query is assembled from

-----------------------------------------------------------------------------
(* Config *)

RETRIEVAL_K == 20
SPECIFIC_RETRIEVAL_K == 5
MAX_SIMILARITY_DOCS == 100

COUNT_KEYWORDS == <<"how many", "count", "number of", "total", "how much">>

CV_KEYWORDS == <<"cv", "cvs", "resume", "resumes", "applicant", "applicants",
                 "candidate", "candidates">>

PDF_TYPE == "application/pdf"
DOCX_TYPE == "application/vnd.openxmlformats-officedocument.wordprocessingml.document"

-----------------------------------------------------------------------------
(* Python values *)

None == [none |-> TRUE]

\* a str held where None may be held instead (Optional[str])
Str(s) == [str |-> s]

Min(a, b) == IF a <= b THEN a ELSE b

\* s[:k]
Take(s, k) == SubSeq(s, 1, Min(k, Len(s)))

Char(s, i) == SubSeq(s, i, i)

UpperLetters == "ABCDEFGHIJKLMNOPQRSTUVWXYZ"
LowerLetters == "abcdefghijklmnopqrstuvwxyz"

LowerOf ==
    [c \in {Char(UpperLetters, i) : i \in 1..26} |->
        Char(LowerLetters, CHOOSE i \in 1..26 : Char(UpperLetters, i) = c)]

LowerChar(c) == IF c \in DOMAIN LowerOf THEN LowerOf[c] ELSE c

RECURSIVE Lower(_)
\* str.lower()
Lower(s) == IF s = "" THEN "" ELSE LowerChar(Char(s, 1)) \o Lower(SubSeq(s, 2, Len(s)))

\* sub in s
Contains(sub, s) ==
    \E i \in 1..(Len(s) - Len(sub) + 1) : SubSeq(s, i, i + Len(sub) - 1) = sub

IsSpace(c) == c \in {" ", "\t", "\n"}

RECURSIVE LStrip(_)
LStrip(s) == IF s # "" /\ IsSpace(Char(s, 1)) THEN LStrip(SubSeq(s, 2, Len(s))) ELSE s

RECURSIVE RStrip(_)
RStrip(s) == IF s # "" /\ IsSpace(Char(s, Len(s))) THEN RStrip(SubSeq(s, 1, Len(s) - 1)) ELSE s

\* str.strip()
Strip(s) == RStrip(LStrip(s))

\* os.path.splitext(p)[0] for a name without directory separators
SplitExtRoot(p) ==
    LET dots == {i \in 1..Len(p) : Char(p, i) = "."}
    IN  IF dots = {} THEN p
        ELSE LET dotIndex == CHOOSE i \in dots : \A j \in dots : j <= i
             IN  IF \E i \in 1..(dotIndex - 1) : Char(p, i) # "."
                 THEN SubSeq(p, 1, dotIndex - 1)
                 ELSE p

RECURSIVE Join(_, _)
\* sep.join(strs)
Join(strs, sep) ==
    IF strs = <<>> THEN ""
    ELSE IF Len(strs) = 1 THEN strs[1]
    ELSE strs[1] \o sep \o Join(Tail(strs), sep)

-----------------------------------------------------------------------------
(* utils/helpers.py *)

extract_person_name(filename) == Strip(SplitExtRoot(filename))

\* returns None or the matched name, boxed as [str |-> name]
is_applicant_specific(query, names) ==
    LET query_lower == Lower(query)
        hits == {i \in 1..Len(names) : Contains(Lower(names[i]), query_lower)}
    IN  IF hits = {} THEN None
        ELSE Str(names[CHOOSE i \in hits : \A j \in hits : i <= j])

\* is_count_query with "or" for "and"
is_count_query_either(query) ==
    LET query_lower == Lower(query)
    IN  \/ \E i \in 1..Len(COUNT_KEYWORDS) : Contains(COUNT_KEYWORDS[i], query_lower)
        \/ \E i \in 1..Len(CV_KEYWORDS) : Contains(CV_KEYWORDS[i], query_lower)

is_count_query(query) ==
    LET query_lower == Lower(query)
        has_count_keyword ==
            \E i \in 1..Len(COUNT_KEYWORDS) : Contains(COUNT_KEYWORDS[i], query_lower)
        has_cv_keyword ==
            \E i \in 1..Len(CV_KEYWORDS) : Contains(CV_KEYWORDS[i], query_lower)
    IN  has_count_keyword /\ has_cv_keyword

\* truth value of an Optional[str]: None and "" are false
Truthy(v) == v # None /\ v.str # ""

-----------------------------------------------------------------------------
(* Uploaded files.  A file carries its name, its declared MIME type,       *)
(* whether its reader succeeds, and the number of chunks its text is cut   *)
(* into by the text splitter (0 for a text with nothing to split).         *)

File(name, type, readable, nchunks) ==
    [name |-> name, type |-> type, readable |-> readable, nchunks |-> nchunks]

FilePool ==
    { File("Jane Doe.pdf", PDF_TYPE, TRUE, 2),
      File("jane doe.docx", DOCX_TYPE, TRUE, 1),
      File("John.pdf", PDF_TYPE, TRUE, 101),
      File(" .pdf", PDF_TYPE, TRUE, 1),
      File("Jane Doe.docx", DOCX_TYPE, TRUE, 0),
      File("Bad.pdf", PDF_TYPE, FALSE, 1),
      File("Notes.docx", "application/octet-stream", TRUE, 1) }

Batches == UNION {[1..n -> FilePool] : n \in 0..MaxFiles}

-----------------------------------------------------------------------------
(* A Python dict: key/value pairs in insertion order *)

DictKeys(d) == [i \in 1..Len(d) |-> d[i].key]

\* d[k] = v on a list of pairs: a key that is present is entered once more
DictSet_appending(d, k, v) == Append(d, [key |-> k, value |-> v])

\* d[k] = v
DictSet(d, k, v) ==
    IF \E i \in 1..Len(d) : d[i].key = k
    THEN [i \in 1..Len(d) |-> IF d[i].key = k THEN [key |-> k, value |-> v] ELSE d[i]]
    ELSE Append(d, [key |-> k, value |-> v])

-----------------------------------------------------------------------------
(* src/document_processor.py *)

\* the text a reader returns for a file
ExtractedText(file) == [src |-> file.name, nchunks |-> file.nchunks]

RECURSIVE ExtractFrom_abort(_, _)
\* the loop without the try/except around a file: the first reader that
\* fails ends the batch
ExtractFrom_abort(uploaded_files, applicant_cvs_) ==
    IF uploaded_files = <<>> THEN applicant_cvs_
    ELSE LET uploaded_file == Head(uploaded_files)
             applicant_name == extract_person_name(uploaded_file.name)
         IN  IF uploaded_file.type \in {PDF_TYPE, DOCX_TYPE}
             THEN IF uploaded_file.readable
                  THEN ExtractFrom_abort(Tail(uploaded_files),
                                         DictSet(applicant_cvs_, applicant_name,
                                                 ExtractedText(uploaded_file)))
                  ELSE <<>>
             ELSE ExtractFrom_abort(Tail(uploaded_files), applicant_cvs_)

RECURSIVE ExtractFrom(_, _)
\* the loop over the files, applicant_cvs_ being the dict filled so far
ExtractFrom(uploaded_files, applicant_cvs_) ==
    IF uploaded_files = <<>> THEN applicant_cvs_
    ELSE LET uploaded_file == Head(uploaded_files)
             applicant_name == extract_person_name(uploaded_file.name)
         IN  IF uploaded_file.type \in {PDF_TYPE, DOCX_TYPE}
             THEN IF uploaded_file.readable
                  THEN ExtractFrom(Tail(uploaded_files),
                                   DictSet(applicant_cvs_, applicant_name,
                                           ExtractedText(uploaded_file)))
                  ELSE ExtractFrom(Tail(uploaded_files), applicant_cvs_)
             ELSE ExtractFrom(Tail(uploaded_files), applicant_cvs_)

extract_text_from_files(uploaded_files) == ExtractFrom(uploaded_files, <<>>)

\* the error messages of validate_files, which no caller of the repository invokes
validate_files(uploaded_files) ==
    IF uploaded_files = <<>> THEN <<"No files uploaded">>
    ELSE LET unsupported ==
                 SelectSeq(uploaded_files, LAMBDA file : file.type \notin {PDF_TYPE, DOCX_TYPE})
         IN  [i \in 1..Len(unsupported) |->
                 "Unsupported file type: " \o unsupported[i].name]

-----------------------------------------------------------------------------
(* src/embeddings.py: E5Embeddings.  The value of an embedding method is   *)
(* modelled by the call it makes on the underlying model, the method of    *)
(* the superclass and the texts passed; a text with a prefix in front of   *)
(* it is the pair of the prefix and the text.                              *)

PASSAGE_MARKER == "passage: "
QUERY_MARKER == "query: "

\* f"{prefix}{text}"
Prefixed(prefix, text) == [prefix |-> prefix, text |-> text]

\* embed_documents that frames the texts as queries
embed_documents_as_query(texts) ==
    [method |-> "embed_documents",
     texts |-> [i \in 1..Len(texts) |-> Prefixed(QUERY_MARKER, texts[i])]]

embed_documents(texts) ==
    [method |-> "embed_documents",
     texts |-> [i \in 1..Len(texts) |-> Prefixed(PASSAGE_MARKER, texts[i])]]

embed_query(text) ==
    [method |-> "embed_query", texts |-> <<Prefixed(QUERY_MARKER, text)>>]

-----------------------------------------------------------------------------
(* src/vectorstore.py: VectorStoreManager *)

\* text_splitter.create_documents([cv_text], metadatas=[{"applicant": name}]):
\* the run of the chunks of cv_text, no run for a text that yields no chunk
SplitDocuments(cv_text, applicant_name) ==
    IF cv_text.nchunks = 0 THEN <<>>
    ELSE <<[src |-> cv_text.src, applicant |-> applicant_name, n |-> cv_text.nchunks]>>

\* the documents of a run: chunk i of the text, tagged with the applicant
RunDocs(run) ==
    [i \in 1..run.n |->
        [page_content |-> [src |-> run.src, part |-> i],
         metadata |-> [applicant |-> run.applicant]]]

RECURSIVE Expand(_)
\* the documents of a list of runs
Expand(runs) == IF runs = <<>> THEN <<>> ELSE RunDocs(Head(runs)) \o Expand(Tail(runs))

RECURSIVE create_documents_from_cvs(_)
create_documents_from_cvs(cvs) ==
    IF cvs = <<>> THEN <<>>
    ELSE SplitDocuments(cvs[1].value, cvs[1].key) \o create_documents_from_cvs(Tail(cvs))

\* create_vectorstore without "if not documents: return None"
create_vectorstore_of_nothing(cvs, embed_ok) ==
    LET documents == create_documents_from_cvs(cvs)
    IN  IF embed_ok THEN [runs |-> documents]
        ELSE None

\* embed_ok: FAISS.from_documents returns (the embedding model did not fail)
create_vectorstore(cvs, embed_ok) ==
    LET documents == create_documents_from_cvs(cvs)
    IN  IF documents = <<>> THEN None
        ELSE IF embed_ok THEN [runs |-> documents]
        ELSE None

\* add_documents_to_vectorstore on the index object objects[handle]:
\* the index objects after the call and the handle returned.
\* add_ok: vectorstore.add_documents returns
add_documents_to_vectorstore(objects, handle, new_cvs, add_ok) ==
    LET new_documents == create_documents_from_cvs(new_cvs)
    IN  IF new_documents # <<>> /\ add_ok
        THEN [objects |-> [objects EXCEPT ![handle] =
                              [runs |-> objects[handle].runs \o new_documents]],
              ret |-> handle]
        ELSE [objects |-> objects, ret |-> handle]

\* the texts FAISS.from_documents hands to the embedding model
PageContents(documents) ==
    LET docs == Expand(documents)
    IN  [i \in 1..Len(docs) |-> docs[i].page_content]

-----------------------------------------------------------------------------
(* The FAISS index as the repository uses it: the stored chunks, and a     *)
(* search that returns the k best-ranked of them.  The ranking for a       *)
(* query is decided by the embedding model; RankOrders is the family of    *)
(* rankings the model chooses from.                                        *)

RankOrders == {"stored", "reversed", "riffled"}

Reverse(s) == [i \in 1..Len(s) |-> s[Len(s) + 1 - i]]

\* the chunks at odd positions, then those at even positions
Riffle(s) ==
    LET odd == (Len(s) + 1) \div 2
    IN  [i \in 1..Len(s) |-> IF i <= odd THEN s[2 * i - 1] ELSE s[2 * (i - odd)]]

\* the chunks the index stores, in insertion order
Stored(vs) == Expand(vs.runs)

\* all chunks of the index, best match first
Ranked(vs, order) ==
    CASE order = "stored" -> Stored(vs)
      [] order = "reversed" -> Reverse(Stored(vs))
      [] order = "riffled" -> Riffle(Stored(vs))

\* vectorstore.similarity_search(query, k=k)
similarity_search(vs, order, k) == Take(Ranked(vs, order), k)

\* vectorstore.similarity_search_with_score(query, k=k): (document, score) pairs
similarity_search_with_score(vs, order, k) ==
    LET top == Take(Ranked(vs, order), k)
    IN  [i \in 1..Len(top) |-> <<top[i], i>>]

-----------------------------------------------------------------------------
(* src/vectorstore.py: DocumentRetriever.  A call yields Return(v), the    *)
(* value returned, or Raise(e) when an exception leaves the method.        *)
(* search_ok is whether the call on the index returns rather than raises.  *)

Return(v) == [exc |-> FALSE, val |-> v]
Raise(e) == [exc |-> TRUE, err |-> e]

\* retrieve_documents that asks the index for one document less
retrieve_documents_short(vs, order, k, search_ok) ==
    IF search_ok /\ vs # None
    THEN Return(similarity_search(vs, order, k - 1))
    ELSE Return(<<>>)

\* retrieve_documents without its try/except: a failed search propagates
retrieve_documents_unguarded(vs, order, k, search_ok) ==
    IF search_ok /\ vs # None
    THEN Return(similarity_search(vs, order, k))
    ELSE Raise("search failed")

retrieve_documents(vs, order, k, search_ok) ==
    IF search_ok /\ vs # None
    THEN Return(similarity_search(vs, order, k))
    ELSE Return(<<>>)

retrieve_with_scores(vs, order, k, search_ok) ==
    IF search_ok /\ vs # None
    THEN Return(similarity_search_with_score(vs, order, k))
    ELSE Return(<<>>)

\* filter_documents_by_applicant without the final [:k]
filter_documents_untruncated(docs_with_scores, applicant_name, k) ==
    LET wanted == Lower(applicant_name)
        matching == SelectSeq(docs_with_scores,
                       LAMBDA p : Lower(p[1].metadata.applicant) = wanted)
    IN  [i \in 1..Len(matching) |-> matching[i][1]]

\* filter_documents_by_applicant that cuts to k before it filters
filter_documents_cut_first(docs_with_scores, applicant_name, k) ==
    LET wanted == Lower(applicant_name)
        matching == SelectSeq(Take(docs_with_scores, k),
                       LAMBDA p : Lower(p[1].metadata.applicant) = wanted)
    IN  [i \in 1..Len(matching) |-> matching[i][1]]

filter_documents_by_applicant(docs_with_scores, applicant_name, k) ==
    LET wanted == Lower(applicant_name)
        matching == SelectSeq(docs_with_scores,
                       LAMBDA p : Lower(p[1].metadata.applicant) = wanted)
        filtered_docs == [i \in 1..Len(matching) |-> matching[i][1]]
    IN  Take(filtered_docs, k)

-----------------------------------------------------------------------------
(* src/rag_engine.py: RAGEngine *)

\* count_doc that reports the number of names after the first
count_doc_miscounted(names) ==
    [page_content |-> [total |-> Len(names) - 1, names |-> Join(names, ", ")],
     metadata |-> [applicant |-> "System", type |-> "count_info"]]

count_doc(names) ==
    [page_content |-> [total |-> Len(names), names |-> Join(names, ", ")],
     metadata |-> [applicant |-> "System", type |-> "count_info"]]

\* RoutePath that looks for an applicant name before the count check
RoutePath_name_first(query, names) ==
    IF Truthy(is_applicant_specific(query, names)) THEN "specific"
    ELSE IF is_count_query(query) THEN "count"
    ELSE "general"

\* the branch _build_context_from_query takes
RoutePath(query, names) ==
    IF is_count_query(query) THEN "count"
    ELSE IF Truthy(is_applicant_specific(query, names)) THEN "specific"
    ELSE "general"

\* QueryAnalyzer.analyze_query
analyze_query(query, names) ==
    LET matched == is_applicant_specific(query, names)
        counting == is_count_query(query)
    IN  [query |-> query,
         is_count_query |-> counting,
         is_applicant_specific |-> Truthy(matched),
         matched_applicant |-> IF Truthy(matched) THEN matched ELSE None,
         query_type |-> IF counting THEN "count"
                        ELSE IF Truthy(matched) THEN "applicant_specific"
                        ELSE "general"]

SearchCall(method, k, ok) == [method |-> method, k |-> k, ok |-> ok]

\* the outcome of the call (Return or Raise), with the branch taken, the
\* matched applicant and the search calls made on the index; branch is
\* RoutePath(query, names)
build_context_from_query(branch, query, vs, names, order, search_ok) ==
        CASE branch = "count" ->
               [out |-> Return(<<count_doc(names)>>), path |-> branch,
                matched |-> None, searches |-> <<>>]
          [] branch = "specific" ->
               LET matched == is_applicant_specific(query, names)
                   scored == retrieve_with_scores(vs, order, MAX_SIMILARITY_DOCS, search_ok)
               IN  [out |-> IF scored.exc THEN scored
                            ELSE Return(filter_documents_by_applicant(
                                     scored.val, matched.str, SPECIFIC_RETRIEVAL_K)),
                    path |-> branch, matched |-> matched,
                    searches |-> <<SearchCall("similarity_search_with_score",
                                              MAX_SIMILARITY_DOCS, search_ok)>>]
          [] branch = "general" ->
               [out |-> retrieve_documents(vs, order, RETRIEVAL_K, search_ok),
                path |-> branch, matched |-> is_applicant_specific(query, names),
                searches |-> <<SearchCall("get_relevant_documents",
                                          RETRIEVAL_K, search_ok)>>]

NoDocsResult == [result |-> "No relevant documents found.", source_documents |-> <<>>]

\* the value the except clause of query returns
ErrorResult(e) == [result |-> "Error occurred: " \o e, source_documents |-> <<>>]

\* query without its try/except: an exception of the body leaves query
TryExcept_absent(body) ==
    IF body.exc
    THEN [raised |-> TRUE, ret |-> None]
    ELSE [raised |-> FALSE, ret |-> body.val]

\* query's try/except around its body: what leaves query when the body
\* returned a result or raised
TryExcept(body) ==
    IF body.exc
    THEN [raised |-> FALSE, ret |-> ErrorResult(body.err)]
    ELSE [raised |-> FALSE, ret |-> body.val]

\* the return after chain.invoke
AnswerResult(content, docs) == [result |-> content, source_documents |-> docs]

\* query without the check of the retrieved documents
ShortCircuits_never(docs) == FALSE

\* "if not context_docs": the query returns without generating
ShortCircuits(docs) == docs = <<>>

-----------------------------------------------------------------------------
(* Queries: up to MaxFrags fragments, concatenated *)

FragPool ==
    { "How many CVs ", "How many ", "years?", "resume of ", "Jane Doe", "JOHN" }

RECURSIVE Concat(_)
Concat(frags) == IF frags = <<>> THEN "" ELSE Head(frags) \o Concat(Tail(frags))

Queries == {Concat(fs) : fs \in UNION {[1..n -> FragPool] : n \in 1..MaxFrags}}

\* what the generation service may answer
LLMAnswers == {"- generated answer"}

-----------------------------------------------------------------------------
(* State machine *)

NoQuery ==
    /\ user_query = ""
    /\ q_vectorstore = None
    /\ q_names = <<>>
    /\ rank_order = "none"
    /\ path = "none"
    /\ matched_applicant = None
    /\ searches = <<>>
    /\ context_docs = <<>>
    /\ llm_calls = <<>>
    /\ result = None
    /\ raised = FALSE

\* SessionManager.initialize_session_state
Init ==
    /\ vectorstore = None
    /\ applicant_names = <<>>
    /\ applicant_cvs = <<>>
    /\ upload_msg = "none"
    /\ pc = "idle"
    /\ NoQuery
    /\ uploader_files = <<>>
    /\ extracted = None
    /\ model_inputs = None
    /\ update_args = None
    /\ add_call = None

\* has_vectorstore that holds in every session
has_vectorstore_always == TRUE

has_vectorstore == vectorstore # None

\* the three values the session holds for the index
session_state ==
    [vectorstore |-> vectorstore, applicant_names |-> applicant_names,
     applicant_cvs |-> applicant_cvs]

\* update_vectorstore that adds the new batch to what the session holds
update_vectorstore_merging(state, vs, names, cvs) ==
    IF state.vectorstore = None
    THEN [vectorstore |-> vs, applicant_names |-> names, applicant_cvs |-> cvs]
    ELSE [vectorstore |-> [runs |-> state.vectorstore.runs \o vs.runs],
          applicant_names |-> state.applicant_names \o names,
          applicant_cvs |-> state.applicant_cvs \o cvs]

\* SessionManager.update_vectorstore: the session state after the call
update_vectorstore(state, vs, names, cvs) ==
    [vectorstore |-> vs, applicant_names |-> names, applicant_cvs |-> cvs]

\* the Load & Index button: handle_file_upload(uploaded_files).
\* manager_ok: VectorStoreManager() is constructed (the embedding model loads)
HandleFileUpload ==
    /\ pc = "idle"
    /\ \E uploaded_files \in Batches :
         IF uploaded_files = <<>>
         THEN /\ upload_msg' = "warning: upload files first"
              /\ UNCHANGED <<vectorstore, applicant_names, applicant_cvs>>
         ELSE \E cvs \in {extract_text_from_files(uploaded_files)} :
                IF cvs = <<>>
                THEN /\ upload_msg' = "error: no valid CV files"
                     /\ UNCHANGED <<vectorstore, applicant_names, applicant_cvs>>
                ELSE \E manager_ok \in BOOLEAN :
                       IF ~manager_ok
                       THEN /\ upload_msg' = "error: exception"
                            /\ UNCHANGED <<vectorstore, applicant_names, applicant_cvs>>
                       ELSE \E embed_ok \in BOOLEAN :
                              \E vs \in {create_vectorstore(cvs, embed_ok)} :
                                IF vs # None
                                THEN \E new \in {update_vectorstore(session_state, vs,
                                                                      DictKeys(cvs), cvs)} :
                                       /\ vectorstore' = new.vectorstore
                                       /\ applicant_names' = new.applicant_names
                                       /\ applicant_cvs' = new.applicant_cvs
                                       /\ upload_msg' = "success"
                                ELSE /\ upload_msg' = "error: failed to create vectorstore"
                                     /\ UNCHANGED <<vectorstore, applicant_names,
                                                    applicant_cvs>>
    /\ UNCHANGED pc
    /\ UNCHANGED queryVars
    /\ UNCHANGED ingestVars

\* the Run Query button, in a new run of the script (the banners of the
\* previous run are gone): handle_query reads the session
RunQuery ==
    /\ pc = "idle"
    /\ has_vectorstore
    /\ \E query \in Queries :
         /\ query # ""
         /\ user_query' = query
    /\ rank_order' = "none"
    /\ q_vectorstore' = vectorstore
    /\ q_names' = applicant_names
    /\ pc' = "retrieve"
    /\ path' = "none"
    /\ matched_applicant' = None
    /\ searches' = <<>>
    /\ context_docs' = <<>>
    /\ llm_calls' = <<>>
    /\ result' = None
    /\ raised' = FALSE
    /\ upload_msg' = "none"
    /\ UNCHANGED <<vectorstore, applicant_names, applicant_cvs>>
    /\ UNCHANGED ingestVars

\* RAGEngine.query up to the check of the retrieved documents
QueryRetrieve ==
    /\ pc = "retrieve"
    /\ \E branch \in {RoutePath(user_query, q_names)} :
       \E order \in RankOrders, search_ok \in BOOLEAN :
         \E r \in {build_context_from_query(branch, user_query, q_vectorstore, q_names,
                                            order, search_ok)} :
             /\ rank_order' = IF \E i \in 1..Len(r.searches) : r.searches[i].ok
                              THEN order ELSE "none"
             /\ path' = r.path
             /\ matched_applicant' = r.matched
             /\ searches' = r.searches
             /\ IF r.out.exc
                THEN /\ context_docs' = <<>>
                     /\ result' = TryExcept(r.out).ret
                     /\ raised' = TryExcept(r.out).raised
                     /\ pc' = "render"
                ELSE IF ShortCircuits(r.out.val)
                THEN /\ context_docs' = r.out.val
                     /\ result' = TryExcept(Return(NoDocsResult)).ret
                     /\ raised' = TryExcept(Return(NoDocsResult)).raised
                     /\ pc' = "render"
                ELSE /\ context_docs' = r.out.val
                     /\ result' = None
                     /\ raised' = FALSE
                     /\ pc' = "generate"
    /\ UNCHANGED <<user_query, q_vectorstore, q_names, llm_calls>>
    /\ UNCHANGED sessionVars
    /\ UNCHANGED ingestVars

\* RAGEngine.query from the context text to the return
QueryGenerate ==
    /\ pc = "generate"
    /\ \E invoked \in {Return(content) : content \in LLMAnswers}
                       \cup {Raise("generation service failed")} :
         LET body == IF invoked.exc THEN invoked
                     ELSE Return(AnswerResult(invoked.val, context_docs))
         IN  /\ llm_calls' = Append(llm_calls, IF invoked.exc THEN "failed" ELSE "answered")
             /\ result' = TryExcept(body).ret
             /\ raised' = TryExcept(body).raised
    /\ pc' = "render"
    /\ UNCHANGED <<user_query, q_vectorstore, q_names, rank_order, path,
                   matched_applicant, searches, context_docs>>
    /\ UNCHANGED sessionVars
    /\ UNCHANGED ingestVars

\* UIComponents.render_results, end of handle_query
RenderResults ==
    /\ pc = "render"
    /\ pc' = "idle"
    /\ user_query' = ""
    /\ q_vectorstore' = None
    /\ q_names' = <<>>
    /\ rank_order' = "none"
    /\ path' = "none"
    /\ matched_applicant' = None
    /\ searches' = <<>>
    /\ context_docs' = <<>>
    /\ llm_calls' = <<>>
    /\ result' = None
    /\ raised' = FALSE
    /\ UNCHANGED sessionVars
    /\ UNCHANGED ingestVars

\* A session whose file uploader holds one batch of files throughout: the
\* Load & Index button on the files of the uploader, with the value
\* extract_text_from_files returned and the texts handed to the model
LoadUploaded ==
    /\ pc = "idle"
    /\ IF uploader_files = <<>>
       THEN /\ upload_msg' = "warning: upload files first"
            /\ UNCHANGED <<vectorstore, applicant_names, applicant_cvs>>
            /\ UNCHANGED <<extracted, model_inputs>>
       ELSE \E cvs \in {extract_text_from_files(uploader_files)} :
              /\ extracted' = Return(cvs)
              /\ IF cvs = <<>>
                 THEN /\ upload_msg' = "error: no valid CV files"
                      /\ UNCHANGED <<vectorstore, applicant_names, applicant_cvs>>
                      /\ UNCHANGED model_inputs
                 ELSE \E manager_ok \in BOOLEAN :
                        IF ~manager_ok
                        THEN /\ upload_msg' = "error: exception"
                             /\ UNCHANGED <<vectorstore, applicant_names, applicant_cvs>>
                             /\ UNCHANGED model_inputs
                        ELSE \E embed_ok \in BOOLEAN :
                               \E vs \in {create_vectorstore(cvs, embed_ok)} :
                                 /\ model_inputs' =
                                       LET documents == create_documents_from_cvs(cvs)
                                       IN  IF documents = <<>> THEN model_inputs
                                           ELSE embed_documents(PageContents(documents))
                                 /\ IF vs # None
                                    THEN \E new \in {update_vectorstore(session_state, vs,
                                                                          DictKeys(cvs), cvs)} :
                                           /\ vectorstore' = new.vectorstore
                                           /\ applicant_names' = new.applicant_names
                                           /\ applicant_cvs' = new.applicant_cvs
                                           /\ upload_msg' = "success"
                                    ELSE /\ upload_msg' = "error: failed to create vectorstore"
                                         /\ UNCHANGED <<vectorstore, applicant_names,
                                                        applicant_cvs>>
    /\ UNCHANGED <<pc, uploader_files, update_args, add_call>>
    /\ UNCHANGED queryVars

\* the user puts another batch of files into the uploader after a Load &
\* Index that succeeded: a new run of the script, the banners are gone
ReplaceFiles ==
    /\ pc = "idle"
    /\ upload_msg = "success"
    /\ \E uploaded_files \in Batches :
         /\ uploaded_files # uploader_files
         /\ uploader_files' = uploaded_files
    /\ upload_msg' = "none"
    /\ extracted' = None
    /\ model_inputs' = None
    /\ UNCHANGED <<vectorstore, applicant_names, applicant_cvs, pc, update_args, add_call>>
    /\ UNCHANGED queryVars

-----------------------------------------------------------------------------
(* Two script runs of one session that overlap: one is in handle_query,    *)
(* the other in handle_file_upload.  Each assignment to st.session_state   *)
(* and each read of it is a step of its own; the code holds no lock and    *)
(* keeps the three values in three separate entries of the session state.  *)

\* batches of one file
OneFileBatches == {<<file>> : file \in FilePool}

\* handle_file_upload up to the call of SessionManager.update_vectorstore
CallUpdate ==
    /\ update_args = None
    /\ \E uploaded_files \in OneFileBatches :
         \E cvs \in {extract_text_from_files(uploaded_files)} :
           IF cvs = <<>>
           THEN upload_msg' = "error: no valid CV files" /\ UNCHANGED update_args
           ELSE \E manager_ok \in BOOLEAN :
                  IF ~manager_ok
                  THEN upload_msg' = "error: exception" /\ UNCHANGED update_args
                  ELSE \E embed_ok \in BOOLEAN :
                         \E vs \in {create_vectorstore(cvs, embed_ok)} :
                           IF vs # None
                           THEN /\ update_args' =
                                      [vectorstore |-> vs,
                                       applicant_names |-> DictKeys(cvs),
                                       applicant_cvs |-> cvs,
                                       at |-> "vectorstore"]
                                /\ upload_msg' = "none"
                           ELSE /\ upload_msg' = "error: failed to create vectorstore"
                                /\ UNCHANGED update_args
    /\ UNCHANGED <<vectorstore, applicant_names, applicant_cvs, pc>>
    /\ UNCHANGED <<uploader_files, extracted, model_inputs, add_call>>
    /\ UNCHANGED queryVars

\* st.session_state.vectorstore = vectorstore
AssignVectorstore ==
    /\ update_args # None
    /\ update_args.at = "vectorstore"
    /\ vectorstore' = update_args.vectorstore
    /\ update_args' = [update_args EXCEPT !.at = "applicant_names"]
    /\ UNCHANGED <<applicant_names, applicant_cvs, upload_msg, pc>>
    /\ UNCHANGED <<uploader_files, extracted, model_inputs, add_call>>
    /\ UNCHANGED queryVars

\* st.session_state.applicant_names = applicant_names
AssignApplicantNames ==
    /\ update_args # None
    /\ update_args.at = "applicant_names"
    /\ applicant_names' = update_args.applicant_names
    /\ update_args' = [update_args EXCEPT !.at = "applicant_cvs"]
    /\ UNCHANGED <<vectorstore, applicant_cvs, upload_msg, pc>>
    /\ UNCHANGED <<uploader_files, extracted, model_inputs, add_call>>
    /\ UNCHANGED queryVars

\* st.session_state.applicant_cvs = applicant_cvs, and the success banner
AssignApplicantCvs ==
    /\ update_args # None
    /\ update_args.at = "applicant_cvs"
    /\ applicant_cvs' = update_args.applicant_cvs
    /\ update_args' = None
    /\ upload_msg' = "success"
    /\ UNCHANGED <<vectorstore, applicant_names, pc>>
    /\ UNCHANGED <<uploader_files, extracted, model_inputs, add_call>>
    /\ UNCHANGED queryVars

\* handle_query: vectorstore = SessionManager.get_vectorstore(), reached
\* when has_vectorstore held and the Run Query button was pressed
GetVectorstore ==
    /\ pc = "idle"
    /\ has_vectorstore
    /\ \E query \in FragPool : user_query' = query
    /\ q_vectorstore' = vectorstore
    /\ pc' = "get_applicant_names"
    /\ UNCHANGED <<q_names, rank_order, path, matched_applicant, searches,
                   context_docs, llm_calls, result, raised>>
    /\ UNCHANGED sessionVars
    /\ UNCHANGED ingestVars

\* handle_query: applicant_names = SessionManager.get_applicant_names()
GetApplicantNames ==
    /\ pc = "get_applicant_names"
    /\ q_names' = applicant_names
    /\ pc' = "query"
    /\ UNCHANGED <<user_query, q_vectorstore, rank_order, path, matched_applicant,
                   searches, context_docs, llm_calls, result, raised>>
    /\ UNCHANGED sessionVars
    /\ UNCHANGED ingestVars

\* handle_query from RAGEngine() to its end
EndQuery ==
    /\ pc = "query"
    /\ pc' = "idle"
    /\ user_query' = ""
    /\ q_vectorstore' = None
    /\ q_names' = <<>>
    /\ UNCHANGED <<rank_order, path, matched_applicant, searches, context_docs,
                   llm_calls, result, raised>>
    /\ UNCHANGED sessionVars
    /\ UNCHANGED ingestVars

\* a search on the index of the session for a query text: the index embeds
\* the query with the embedding model it was built with
SearchIndex ==
    /\ pc = "idle"
    /\ has_vectorstore
    /\ \E query \in FragPool :
         /\ user_query' = query
         /\ model_inputs' = embed_query(query)
    /\ upload_msg' = "none"
    /\ UNCHANGED <<vectorstore, applicant_names, applicant_cvs, pc>>
    /\ UNCHANGED <<q_vectorstore, q_names, rank_order, path, matched_applicant,
                   searches, context_docs, llm_calls, result, raised>>
    /\ UNCHANGED <<uploader_files, extracted, update_args, add_call>>

EmbedNext ==
    \/ LoadUploaded
    \/ SearchIndex

-----------------------------------------------------------------------------
(* A session in which CVs are added to the index the session holds *)

MaxAdds == 1      \* calls of add_documents_to_vectorstore in one session

\* Load & Index in a session that has not added documents
BuildIndex ==
    /\ add_call = None
    /\ HandleFileUpload

\* a caller passes the index of the session and the texts of one more file
\* to add_documents_to_vectorstore.  The index objects of the call are
\* numbered; object 1 is the index the session holds.
AddDocuments ==
    /\ pc = "idle"
    /\ has_vectorstore
    /\ (IF add_call = None THEN 0 ELSE add_call.n) < MaxAdds
    /\ \E uploaded_files \in OneFileBatches, add_ok \in BOOLEAN :
         \E new_cvs \in {extract_text_from_files(uploaded_files)} :
         \E r \in {add_documents_to_vectorstore(<<vectorstore>>, 1, new_cvs, add_ok)} :
           /\ add_call' = [before |-> <<vectorstore>>, passed |-> 1,
                           new_documents |-> create_documents_from_cvs(new_cvs),
                           ok |-> add_ok,
                           after |-> r.objects, ret |-> r.ret,
                           n |-> (IF add_call = None THEN 0 ELSE add_call.n) + 1]
           /\ vectorstore' = r.objects[1]
    /\ UNCHANGED <<applicant_names, applicant_cvs, upload_msg, pc>>
    /\ UNCHANGED <<uploader_files, extracted, model_inputs, update_args>>
    /\ UNCHANGED queryVars

AddNext ==
    \/ BuildIndex
    \/ AddDocuments
    \/ RunQuery
    \/ QueryRetrieve
    \/ QueryGenerate
    \/ RenderResults

OverlapNext ==
    \/ CallUpdate
    \/ AssignVectorstore
    \/ AssignApplicantNames
    \/ AssignApplicantCvs
    \/ GetVectorstore
    \/ GetApplicantNames
    \/ EndQuery

Next ==
    \/ HandleFileUpload
    \/ RunQuery
    \/ QueryRetrieve
    \/ QueryGenerate
    \/ RenderResults

Spec == Init /\ [][Next]_vars

\* the session starts with a batch of files in the uploader
IngestInit ==
    /\ vectorstore = None
    /\ applicant_names = <<>>
    /\ applicant_cvs = <<>>
    /\ upload_msg = "none"
    /\ pc = "idle"
    /\ NoQuery
    /\ uploader_files \in Batches
    /\ extracted = None
    /\ model_inputs = None
    /\ update_args = None
    /\ add_call = None

IngestNext ==
    \/ LoadUploaded
    \/ ReplaceFiles

IngestSpec == IngestInit /\ [][IngestNext]_vars

OverlapSpec == Init /\ [][OverlapNext]_vars

AddSpec == Init /\ [][AddNext]_vars

EmbedSpec == IngestInit /\ [][EmbedNext]_vars

TypeOK ==
    /\ pc \in {"idle", "retrieve", "generate", "render", "get_applicant_names", "query"}
    /\ path \in {"none", "count", "specific", "general"}
    /\ Len(llm_calls) \in 0..1
    /\ raised \in BOOLEAN

-----------------------------------------------------------------------------
(* Properties of the query router *)

\* the router has returned for the query in flight
Routed == pc \in {"generate", "render"}

\* _build_context_from_query has just returned to query
RouterReturned == Routed /\ llm_calls = <<>>

\* kw occurs in s at position i, character by character
OccursAt(kw, s, i) ==
    /\ i + Len(kw) - 1 <= Len(s)
    /\ \A j \in 1..Len(kw) : Char(s, i + j - 1) = Char(kw, j)

Occurs(kw, s) == \E i \in 1..(Len(s) + 1) : OccursAt(kw, s, i)

\* the names of the list that occur in the query, ignoring case, by position
NameHits(query, names) ==
    {i \in 1..Len(names) : Occurs(Lower(names[i]), Lower(query))}

\* C1: routing priority.  Whenever the query in flight is a count query the
\* router has taken the count path, also when the query contains the name of
\* an applicant of the list; the person-specific and the general path are
\* taken only by queries that are not count queries.
C1_CountPathFirst ==
    RouterReturned =>
        /\ path \in {"count", "specific", "general"}
        /\ is_count_query(user_query) <=> path = "count"

\* a count query that names an applicant of the list went the count path
C1_Witness ==
    /\ Routed
    /\ path = "count"
    /\ \E i \in NameHits(user_query, q_names) : q_names[i] # ""

\* C2: a query is classified as a count query (and routed on the count
\* path) exactly when its lower-cased text contains a phrase of
\* COUNT_KEYWORDS and a phrase of CV_KEYWORDS; one of the two is not enough.
C2_CountNeedsBothVocabularies ==
    RouterReturned =>
        LET q == Lower(user_query)
            counting == \E i \in 1..Len(COUNT_KEYWORDS) : Occurs(COUNT_KEYWORDS[i], q)
            corpus == \E i \in 1..Len(CV_KEYWORDS) : Occurs(CV_KEYWORDS[i], q)
        IN  path = "count" <=> (counting /\ corpus)

\* "How many years?" has a counting phrase and no corpus noun: not a count query
C2_Witness ==
    /\ Routed
    /\ user_query = "How many years?"
    /\ path # "count"

\* C3: on the count path the router returns exactly one item; its total is
\* the length of the name list it was given, every name of the list occurs
\* in its listing, it carries type count_info, which no chunk of the index
\* and no item returned on another path carries, and no search call was made
\* on the index.
C3_CountItem ==
    RouterReturned =>
        /\ path = "count" =>
              /\ Len(context_docs) = 1
              /\ context_docs[1].page_content.total = Len(q_names)
              /\ \A i \in 1..Len(q_names) :
                    Occurs(q_names[i], context_docs[1].page_content.names)
              /\ "type" \in DOMAIN context_docs[1].metadata
              /\ context_docs[1].metadata.type = "count_info"
              /\ searches = <<>>
        /\ path # "count" =>
              \A i \in 1..Len(context_docs) : "type" \notin DOMAIN context_docs[i].metadata
        /\ LET chunks == Stored(q_vectorstore)
           IN  \A i \in 1..Len(chunks) : "type" \notin DOMAIN chunks[i].metadata

\* a count query answered over a list of two applicants
C3_Witness ==
    /\ Routed
    /\ path = "count"
    /\ Len(q_names) = 2
    /\ Len(context_docs) = 1
    /\ context_docs[1].page_content.total = 2

\* C4: for a query that is not a count query, if a name of the list occurs
\* in the query ignoring case, the router takes the person-specific path and
\* the matched applicant is the first such name in list order; the general
\* path is taken only when no name of the list occurs in the query.
C4_FirstNameInListOrder ==
    (RouterReturned /\ ~is_count_query(user_query)) =>
        LET hits == NameHits(user_query, q_names)
        IN  /\ hits # {} =>
                  /\ path = "specific"
                  /\ matched_applicant =
                         Str(q_names[CHOOSE i \in hits : \A j \in hits : i <= j])
            /\ path = "general" => hits = {}

\* the classification of analyze_query agrees with the branch of the router
AnalysisAgrees(analysis) ==
    /\ analysis.query_type \in {"count", "applicant_specific", "general"}
    /\ analysis.query_type = "count" <=> path = "count"
    /\ analysis.query_type = "applicant_specific"
          <=> (path = "specific" /\ analysis.matched_applicant = matched_applicant)
    /\ analysis.query_type = "general" <=> path = "general"

C19_Agreement == RouterReturned => AnalysisAgrees(analyze_query(user_query, q_names))

\* C19: analyze_query puts every query into exactly one of count,
\* applicant_specific and general; the class is count exactly when the
\* router takes the count path, applicant_specific exactly when it takes
\* the person-specific path with the same matched applicant, general
\* otherwise; and the analysis reports a matched applicant only for a query
\* of the class applicant_specific.
C19_AnalysisMatchesRouter ==
    RouterReturned =>
        LET analysis == analyze_query(user_query, q_names)
        IN  /\ AnalysisAgrees(analysis)
            /\ (analysis.matched_applicant # None \/ analysis.is_applicant_specific)
                  => analysis.query_type = "applicant_specific"

-----------------------------------------------------------------------------
(* Properties of the person-specific and the general path *)

\* the ranking the search of the query in flight used; empty when no search returned
RankedForQuery ==
    IF rank_order = "none" THEN <<>> ELSE Ranked(q_vectorstore, rank_order)

\* the rank of document d in ranking r (the documents of an index are distinct)
RankOf(d, r) == CHOOSE k \in 1..Len(r) : r[k] = d

\* the j-th smallest number of the set S
Nth(S, j) == CHOOSE x \in S : Cardinality({y \in S : y < x}) = j - 1

\* docs is drawn from ranking r and keeps the relative order of r
KeepsRankOrder(docs, r) ==
    /\ \A i \in 1..Len(docs) : \E k \in 1..Len(r) : r[k] = docs[i]
    /\ \A i \in 1..Len(docs) : \A j \in (i + 1)..Len(docs) :
          RankOf(docs[i], r) < RankOf(docs[j], r)

\* C5 as stated: on the person-specific path at most SPECIFIC_RETRIEVAL_K
\* items are returned, every returned item is tagged with exactly the matched
\* applicant, and the items keep the order of the ranked search result.
C5_OnlyMatchedApplicantTag ==
    (RouterReturned /\ path = "specific") =>
        /\ Len(context_docs) <= SPECIFIC_RETRIEVAL_K
        /\ \A i \in 1..Len(context_docs) :
              context_docs[i].metadata.applicant = matched_applicant.str
        /\ KeepsRankOrder(context_docs, RankedForQuery)

\* C5 amended: on the person-specific path at most SPECIFIC_RETRIEVAL_K
\* items are returned, every returned item is a chunk whose applicant tag
\* equals the matched name when case is ignored, and the items keep the
\* relative order they had in the ranked search result.
C5_SpecificResultFiltered ==
    (RouterReturned /\ path = "specific") =>
        /\ Len(context_docs) <= SPECIFIC_RETRIEVAL_K
        /\ \A i \in 1..Len(context_docs) :
              /\ "type" \notin DOMAIN context_docs[i].metadata
              /\ Lower(context_docs[i].metadata.applicant) = Lower(matched_applicant.str)
        /\ KeepsRankOrder(context_docs, RankedForQuery)

\* five chunks returned from an index that also holds another applicant's chunks
C5_Witness ==
    /\ Routed
    /\ path = "specific"
    /\ Len(context_docs) = SPECIFIC_RETRIEVAL_K
    /\ \E i \in 1..Len(q_vectorstore.runs) :
          Lower(q_vectorstore.runs[i].applicant) # Lower(matched_applicant.str)

\* the ranks, among the first `within` of ranking r, of the chunks tagged
\* with name when case is ignored
OwnRanks(r, name, within) ==
    LET wanted == Lower(name)
    IN  {k \in 1..Min(within, Len(r)) : Lower(r[k].metadata.applicant) = wanted}

\* C6 as stated, for a search that returned and with tags compared as the
\* filter compares them: the person-specific result is the first min(5, n)
\* of the matched applicant's n chunks in the rank order of the whole index,
\* and it is not empty when the applicant has a chunk in the index.
C6_NeverCrowdedOut ==
    (RouterReturned /\ path = "specific" /\ rank_order # "none") =>
        LET r == RankedForQuery
            own == OwnRanks(r, matched_applicant.str, Len(r))
        IN  /\ Len(context_docs) = Min(SPECIFIC_RETRIEVAL_K, Cardinality(own))
            /\ \A j \in 1..Len(context_docs) : context_docs[j] = r[Nth(own, j)]
            /\ own # {} => context_docs # <<>>

\* C6 amended: when the search returns, the person-specific result is the
\* first min(5, n) of the n chunks tagged (ignoring case) with the matched
\* applicant among the MAX_SIMILARITY_DOCS best-ranked chunks of the index,
\* in rank order; it is not empty when the applicant has a chunk and the
\* index holds at most MAX_SIMILARITY_DOCS chunks.
C6_NotCrowdedOutWithinOverfetch ==
    (RouterReturned /\ path = "specific" /\ rank_order # "none") =>
        LET r == RankedForQuery
            own == OwnRanks(r, matched_applicant.str, MAX_SIMILARITY_DOCS)
        IN  /\ Len(context_docs) = Min(SPECIFIC_RETRIEVAL_K, Cardinality(own))
            /\ \A j \in 1..Len(context_docs) : context_docs[j] = r[Nth(own, j)]
            /\ (Len(r) <= MAX_SIMILARITY_DOCS
                  /\ OwnRanks(r, matched_applicant.str, Len(r)) # {})
                 => context_docs # <<>>

\* the matched applicant's chunks are returned although another applicant's
\* chunks rank above them
C6_Witness ==
    /\ Routed
    /\ path = "specific"
    /\ rank_order # "none"
    /\ context_docs # <<>>
    /\ RankOf(context_docs[1], RankedForQuery) > SPECIFIC_RETRIEVAL_K

\* C7: on the general path exactly one search is made, over the whole index
\* with k = RETRIEVAL_K, and what it returns is handed back unfiltered and
\* in rank order: the min(RETRIEVAL_K, number of stored chunks) best-ranked
\* chunks, whatever applicant they belong to.
C7_GeneralTopK ==
    (RouterReturned /\ path = "general") =>
        /\ Len(searches) = 1
        /\ searches[1].method = "get_relevant_documents"
        /\ searches[1].k = RETRIEVAL_K
        /\ searches[1].k = 20
        /\ searches[1].ok =>
              LET r == RankedForQuery
              IN  /\ Len(context_docs) = Min(20, Len(Stored(q_vectorstore)))
                  /\ \A i \in 1..Len(context_docs) : context_docs[i] = r[i]

\* twenty chunks of two applicants returned from an index of more than twenty
C7_Witness ==
    /\ Routed
    /\ path = "general"
    /\ Len(context_docs) = 20
    /\ Len(Stored(q_vectorstore)) > 20
    /\ \E i, j \in 1..Len(context_docs) :
          context_docs[i].metadata.applicant # context_docs[j].metadata.applicant

-----------------------------------------------------------------------------
(* Properties of RAGEngine.query *)

IsErrorText(text) == Take(text, 16) = "Error occurred: "

\* C8: when the router returned nothing, query returns the canned result
\* "No relevant documents found." with no sources and the generation
\* service was not invoked during the query; the generation service is
\* invoked only after a non-empty retrieval.
C8_EmptyRetrievalShortCircuit ==
    /\ (pc = "render" /\ context_docs = <<>>) =>
          /\ result = NoDocsResult
          /\ result.result = "No relevant documents found."
          /\ result.source_documents = <<>>
          /\ llm_calls = <<>>
    /\ (pc = "generate" \/ llm_calls # <<>>) => context_docs # <<>>

\* a search that returned found no chunk of the matched applicant
C8_Witness ==
    /\ pc = "render"
    /\ path = "specific"
    /\ rank_order # "none"
    /\ context_docs = <<>>
    /\ result = NoDocsResult

\* C9: query always returns a result with an answer text and a source list
\* and never raises; when the generation service failed the answer is an
\* error message, the source list is empty, and the service was called once.
C9_QueryAlwaysReturns ==
    /\ raised = FALSE
    /\ Len(llm_calls) <= 1
    /\ pc = "render" =>
          /\ result # None
          /\ DOMAIN result = {"result", "source_documents"}
          /\ Len(result.result) > 0
          /\ (\E i \in 1..Len(llm_calls) : llm_calls[i] = "failed") =>
                /\ IsErrorText(result.result)
                /\ result.source_documents = <<>>
                /\ Len(llm_calls) = 1

\* the generation service failed after a non-empty retrieval
C9_Witness ==
    /\ pc = "render"
    /\ context_docs # <<>>
    /\ llm_calls = <<"failed">>
    /\ IsErrorText(result.result)

\* C10: when the search call on the index fails, on the general or on the
\* person-specific path, the router gets an empty result, the query ends
\* with the "No relevant documents found." result and no sources, not with
\* an error result, and the generation service is not called.
C10_SearchFailureDegrades ==
    (Routed /\ \E i \in 1..Len(searches) : ~searches[i].ok) =>
        /\ pc = "render"
        /\ context_docs = <<>>
        /\ result = NoDocsResult
        /\ ~IsErrorText(result.result)
        /\ llm_calls = <<>>
        /\ raised = FALSE

\* a failed search on the general path ended in the canned result
C10_Witness ==
    /\ pc = "render"
    /\ path = "general"
    /\ searches # <<>>
    /\ ~searches[1].ok
    /\ result = NoDocsResult

-----------------------------------------------------------------------------
(* Properties of the ingestion of a batch *)

\* the format of the file is supported and its reader succeeds
Extractable(file) == file.type \in {PDF_TYPE, DOCX_TYPE} /\ file.readable

\* C11: per-document failure isolation.  When extract_text_from_files has
\* returned for a batch, every supported file of the batch whose reader
\* succeeded has an entry under its derived name, wherever it stands
\* relative to the files that failed, and every entry holds the text of a
\* supported file of the batch whose reader succeeded, under that file's
\* derived name: a failing file neither ends the batch nor leaves an entry.
C11_PerDocumentIsolation ==
    extracted # None =>
        /\ ~extracted.exc
        /\ \A i \in 1..Len(uploader_files) :
              Extractable(uploader_files[i]) =>
                  \E j \in 1..Len(extracted.val) :
                      extracted.val[j].key = extract_person_name(uploader_files[i].name)
        /\ \A j \in 1..Len(extracted.val) :
              \E i \in 1..Len(uploader_files) :
                  /\ Extractable(uploader_files[i])
                  /\ extracted.val[j].value.src = uploader_files[i].name
                  /\ extracted.val[j].key = extract_person_name(uploader_files[i].name)

\* a file whose reader fails stands before a file that was extracted
C11_Witness ==
    /\ extracted # None
    /\ Len(uploader_files) = 2
    /\ uploader_files[1].type = PDF_TYPE
    /\ ~uploader_files[1].readable
    /\ Extractable(uploader_files[2])
    /\ Len(extracted.val) = 1
    /\ extracted.val[1].value.src = uploader_files[2].name

\* the file names that occur in what extract_text_from_files returned, as a
\* key or as the origin of a text
NamedInOutcome ==
    {extracted.val[j].key : j \in 1..Len(extracted.val)}
        \cup {extracted.val[j].value.src : j \in 1..Len(extracted.val)}

\* C12: a file of an unsupported format is skipped without failing the
\* batch, and what the ingestion returns to its caller identifies every
\* file it skipped for its format (the files validate_files would name).
C12_SkippedFilesRecorded ==
    extracted # None =>
        /\ ~extracted.exc
        /\ \A i \in 1..Len(uploader_files) :
              (\E k \in 1..Len(validate_files(uploader_files)) :
                   validate_files(uploader_files)[k]
                       = "Unsupported file type: " \o uploader_files[i].name)
              => \/ uploader_files[i].name \in NamedInOutcome
                 \/ extract_person_name(uploader_files[i].name) \in NamedInOutcome

-----------------------------------------------------------------------------
(* Properties of Load & Index *)

\* the step is a Load & Index on the files of the uploader
LoadStep == pc = "idle" /\ pc' = "idle" /\ uploader_files' = uploader_files

\* the chunk documents the files of the uploader yield
BatchDocuments == create_documents_from_cvs(extract_text_from_files(uploader_files))

\* C13: a Load & Index on a batch that yields no usable document or no
\* chunk (an applicant whose text is empty yields no chunk and no error)
\* ends with an error banner, produces no index, and leaves the index, the
\* name list and the CV map of the session as they were; an index the
\* session holds is never empty.
C13_EmptyCorpusFailsBuild ==
    [][(LoadStep /\ uploader_files # <<>> /\ BatchDocuments = <<>>) =>
          /\ upload_msg' \in {"error: no valid CV files",
                               "error: failed to create vectorstore",
                               "error: exception"}
          /\ extract_text_from_files(uploader_files) = <<>>
                 => upload_msg' = "error: no valid CV files"
          /\ vectorstore' = vectorstore
          /\ applicant_names' = applicant_names
          /\ applicant_cvs' = applicant_cvs
          /\ vectorstore' # None => vectorstore'.runs # <<>>]_vars

\* a batch of one applicant with an empty text failed to build although no
\* reader failed, and the session still holds the index of an earlier batch
C13_Witness ==
    /\ vectorstore # None
    /\ upload_msg = "error: failed to create vectorstore"
    /\ extracted # None
    /\ Len(extracted.val) = 1
    /\ extracted.val[1].value.nchunks = 0
    /\ \A i \in 1..Len(uploader_files) : Extractable(uploader_files[i])

\* the derived names of the files of the uploader that are extracted
BatchNames ==
    {extract_person_name(uploader_files[i].name) :
        i \in {j \in 1..Len(uploader_files) : Extractable(uploader_files[j])}}

\* every chunk of the index the session holds is tagged with a name of the
\* name list the session holds
TagsAreListed(vs, names) ==
    vs # None =>
        \A i \in 1..Len(vs.runs) : \E k \in 1..Len(names) : names[k] = vs.runs[i].applicant

\* C14: rebuild replaces, never merges.  A Load & Index that succeeds
\* leaves the session with exactly the names of its own batch, each once,
\* and an index of exactly the chunks of that batch, whatever the session
\* held before; every other step leaves names and index as they were; so
\* the session always holds the names and the chunks of the latest batch
\* that succeeded, and every chunk of the index is tagged with a name of
\* the list.
C14_RebuildReplaces ==
    [][/\ (LoadStep /\ upload_msg' = "success") =>
             /\ {applicant_names'[k] : k \in 1..Len(applicant_names')} = BatchNames
             /\ Len(applicant_names') = Cardinality(BatchNames)
             /\ vectorstore' # None
             /\ vectorstore'.runs = BatchDocuments
       /\ ~(LoadStep /\ upload_msg' = "success") =>
             /\ vectorstore' = vectorstore
             /\ applicant_names' = applicant_names
       /\ TagsAreListed(vectorstore, applicant_names)
       /\ TagsAreListed(vectorstore', applicant_names')]_vars

\* the batch in the uploader failed after an earlier batch succeeded: the
\* session holds the names and the chunks of the earlier batch, none of
\* which is a name of the batch in the uploader
C14_Witness ==
    /\ vectorstore # None
    /\ upload_msg = "error: failed to create vectorstore"
    /\ BatchNames # {}
    /\ \A k \in 1..Len(applicant_names) : applicant_names[k] \notin BatchNames
    /\ Len(vectorstore.runs) = 2

-----------------------------------------------------------------------------
(* Properties of overlapping script runs *)

\* the index and the name list of each Load & Index of one file that succeeds
Generations ==
    {[vectorstore |-> create_vectorstore(extract_text_from_files(b), TRUE),
      applicant_names |-> DictKeys(extract_text_from_files(b))] : b \in OneFileBatches}

\* C15: atomic generation swap.  A query that has read the index and the
\* name list of the session while an update_vectorstore was in progress
\* holds the index and the name list of one and the same Load & Index.
C15_SameGeneration ==
    pc = "query" =>
        [vectorstore |-> q_vectorstore, applicant_names |-> q_names] \in Generations

\* the position in the uploader of the last extracted file that derives name
LastFileOf(name) ==
    LET S == {i \in 1..Len(uploader_files) :
                 /\ Extractable(uploader_files[i])
                 /\ extract_person_name(uploader_files[i].name) = name}
    IN  CHOOSE i \in S : \A j \in S : j <= i

\* C18: same-name uploads.  After a Load & Index that succeeded, every
\* name derived from an extracted file of the batch stands exactly once in
\* the name list of the session, also when several files of the batch
\* derive it; the text, and the chunks of the index, held under the name
\* are those of the last such file of the batch; and the total a count
\* query reports for the list is the number of distinct derived names.
C18_SameNameOnce ==
    upload_msg = "success" =>
        /\ \A name \in BatchNames :
              Cardinality({k \in 1..Len(applicant_names) : applicant_names[k] = name}) = 1
        /\ \A k \in 1..Len(applicant_cvs) :
              /\ applicant_names[k] = applicant_cvs[k].key
              /\ applicant_cvs[k].value.src
                     = uploader_files[LastFileOf(applicant_cvs[k].key)].name
        /\ \A i \in 1..Len(vectorstore.runs) :
              vectorstore.runs[i].src
                  = uploader_files[LastFileOf(vectorstore.runs[i].applicant)].name
        /\ count_doc(applicant_names).page_content.total = Cardinality(BatchNames)

\* two different files of the batch derive the same name; the list holds
\* the name once, with the text of the second file
C18_Witness ==
    /\ upload_msg = "success"
    /\ Len(uploader_files) = 2
    /\ uploader_files[1].name # uploader_files[2].name
    /\ extract_person_name(uploader_files[1].name)
          = extract_person_name(uploader_files[2].name)
    /\ Extractable(uploader_files[1])
    /\ applicant_names = <<"Jane Doe">>
    /\ applicant_cvs[1].value.src = uploader_files[2].name
    /\ count_doc(applicant_names).page_content.total = 1

-----------------------------------------------------------------------------
(* Properties of the embedding calls *)

-----------------------------------------------------------------------------
(* Properties of the index objects *)

\* C16: the index is immutable after build.  No step of a query changes
\* the chunks of the index of the session; and when documents are added to
\* an index, the index returned holds the old chunks followed by the new
\* ones, it is another object than the index passed in when there was
\* something to add, and the object passed in holds after the call exactly
\* the chunks it held before.
C16_IndexImmutable ==
    [][/\ (pc # "idle" \/ pc' # "idle") => vectorstore' = vectorstore
       /\ (add_call' # None /\ add_call' # add_call) =>
             /\ add_call'.ok =>
                   add_call'.after[add_call'.ret].runs
                       = add_call'.before[add_call'.passed].runs
                             \o add_call'.new_documents
             /\ add_call'.after[add_call'.passed] = add_call'.before[add_call'.passed]
             /\ (add_call'.ok /\ add_call'.new_documents # <<>>)
                   => add_call'.ret # add_call'.passed]_vars

-----------------------------------------------------------------------------
(* Properties of the session *)

\* the step is a Load & Index that ends with the success banner
SucceededLoad == pc = "idle" /\ pc' = "idle" /\ upload_msg' = "success"

\* C20: session gating.  handle_query starts and runs only in a session
\* that holds an index, and works on an index; the session comes to hold
\* an index only by a Load & Index that succeeds, every Load & Index that
\* succeeds leaves it with an index, and no step (a batch that fails, a
\* Load & Index without files, a query) takes the index away again.
C20_SessionGating ==
    [][/\ (pc = "idle" /\ pc' # "idle") => vectorstore # None
       /\ pc' # "idle" => (vectorstore' # None /\ q_vectorstore' # None)
       /\ vectorstore # None => vectorstore' # None
       /\ (vectorstore = None /\ vectorstore' # None) => SucceededLoad
       /\ SucceededLoad => vectorstore' # None]_vars

\* a Load & Index without files in a session that holds an index
C20_Witness ==
    /\ vectorstore # None
    /\ upload_msg = "warning: upload files first"
    /\ applicant_names # <<>>

====
